---- MODULE Spec2Model ----
(***************************************************************************)
(* A model of the two scripts of the repository:                           *)
(*   classify_images.py             the batch classifier                   *)
(*   test_prediction_consistency.py the consistency checker                *)
(* The prediction service (dr_service) and the file system are the         *)
(* environment: the service is a function from image to result record      *)
(* fixed for a behaviour, the file system is the source tree, the order    *)
(* in which os.walk lists it, and the output tree.                         *)
(***************************************************************************)
EXTENDS FiniteSets, Integers, Sequences, TLC

VARIABLES
    \* ---- environment of the batch classifier
    source,        \* SOURCE_DIR: [exists, files]
    walkOrder,     \* the order in which os.walk lists the files of the tree
    class_labels,  \* dr_service.class_labels
    service,       \* dr_service.process_image, per image: [raises, ret]
    copyFaults,    \* images whose copy the file system refuses (I/O error)
    output,        \* OUTPUT_DIR: [exists, dirs, files]
    \* ---- the classify_images process
    pc,            \* position in classify_images
    run,           \* which invocation of the script this is
    image_files,   \* the list find_image_files returned
    idx,           \* images of image_files the loop has gone through
    results,       \* the per-class tallies
    processed,     \* the processed count
    \* ---- history variables of the current run
    calls,         \* image -> number of process_image calls
    successes,     \* results with success = true the service returned
    setups,        \* times setup_output_directory ran
    output0,       \* the output tree when the run started
    lastRun,       \* [pc, output, results] at the end of the previous run
    \* ---- the test_prediction_consistency process and its environment
    cExists,       \* test case -> Path(img_path).exists()
    cDecodable,    \* test case -> PIL can open the file
    cService,      \* test case -> result of process_image
    cpc,           \* position in test_prediction_consistency
    cIdx,          \* test cases the loop has gone through
    report,        \* the outcome lines printed, <<case, outcome>>
    cCalls         \* test case -> number of process_image calls

batchEnv  == <<source, walkOrder, class_labels, service, copyFaults>>
batchVars == <<output, pc, run, image_files, idx, results, processed,
               calls, successes, setups, output0, lastRun>>
checkVars == <<cExists, cDecodable, cService, cpc, cIdx, report, cCalls>>
vars      == <<batchEnv, batchVars, checkVars>>

(***************************************************************************)
(* Bounds                                                                  *)
(***************************************************************************)
MaxRuns  == 2   \* invocations of classify_images in a row
MaxFiles == 3   \* files in the source tree

(***************************************************************************)
(* Files and paths                                                         *)
(***************************************************************************)
File(d, s, x) == [dir |-> d, stem |-> s, suffix |-> x]

\* The files a source tree is drawn from: two images of the same name in
\* different subdirectories, an upper-case extension, and a non-image.
AllFiles ==
    { File("a", "x", ".png"), File("b", "x", ".png"),
      File("a", "y", ".JPG"), File("b", "notes", ".txt") }

\* A file of an earlier run, of no source tree of today.
OldFile == File("old", "x", ".png")

\* str.lower() on the suffixes that occur.
Lower(x) ==
    CASE x = ".JPG" -> ".jpg"
      [] x = ".PNG" -> ".png"
      [] OTHER      -> x

image_extensions == {".jpg", ".jpeg", ".png", ".bmp", ".tiff", ".tif"}

IsImage(f) == Lower(f.suffix) \in image_extensions

AllImages == { f \in AllFiles : IsImage(f) }

\* The two listings os.walk may give: a before b, or b before a.
Orders ==
    { << File("a", "x", ".png"), File("a", "y", ".JPG"),
         File("b", "notes", ".txt"), File("b", "x", ".png") >>,
      << File("b", "x", ".png"), File("b", "notes", ".txt"),
         File("a", "y", ".JPG"), File("a", "x", ".png") >> }

RECURSIVE Filter(_, _)
Filter(seq, files) ==
    IF seq = << >> THEN << >>
    ELSE IF Head(seq) \in files /\ IsImage(Head(seq))
         THEN << Head(seq) >> \o Filter(Tail(seq), files)
         ELSE Filter(Tail(seq), files)

find_image_files(directory) == Filter(walkOrder, directory.files)

Range(seq) == { seq[i] : i \in 1..Len(seq) }

(***************************************************************************)
(* Result records of the prediction service. A dict is a record; None is   *)
(* the empty tuple and a value v is <<v>>.                                 *)
(***************************************************************************)
None == << >>
Some(v) == << v >>

Num(n) == [kind |-> "number", val |-> n]
Text   == [kind |-> "text", val |-> 0]

Raises        == [raises |-> TRUE,  ret |-> [error |-> "raised"]]
Returns(d)    == [raises |-> FALSE, ret |-> d]
Failure       == Returns([success |-> FALSE, error |-> "bad image"])
Success(l, c) == Returns([success |-> TRUE, prediction |-> l, confidence |-> c])

\* What the interface of the service allows: an exception, a failure
\* record, or a success with one of the known labels and a number.
ContractResults(labels) ==
    { Raises, Failure } \cup { Success(l, Num(87)) : l \in labels }

\* Records outside the interface: an empty label, an unknown label, a
\* confidence that is no number, no confidence, no success key.
AnyResults(labels) ==
    ContractResults(labels) \cup
    { Success("", Num(87)), Success("Unknown", Num(87)) } \cup
    { Success(l, Text) : l \in labels } \cup
    { Returns([success |-> TRUE, prediction |-> l]) : l \in labels } \cup
    { Returns([prediction |-> l, confidence |-> Num(87)]) : l \in labels }

Get(d, key, default) == IF key \in DOMAIN d THEN d[key] ELSE default

Truthy(p) == p # None /\ p[1] # ""

\* predict_image_using_django_service: <<prediction, confidence>>
predict_image_using_django_service(img_path) ==
    LET r == service[img_path] IN
    IF r.raises THEN << None, None >>
    ELSE IF ~ Get(r.ret, "success", FALSE) THEN << None, None >>
    ELSE IF "prediction" \notin DOMAIN r.ret THEN << None, None >>
    ELSE IF "confidence" \notin DOMAIN r.ret THEN << None, None >>
    ELSE IF r.ret.confidence.kind # "number" THEN << None, None >>
    ELSE << Some(r.ret.prediction), Some(<< r.ret.confidence.val, 100 >>) >>

ReturnedSuccess(img_path) ==
    /\ ~ service[img_path].raises
    /\ Get(service[img_path].ret, "success", FALSE)

(***************************************************************************)
(* The output tree                                                         *)
(***************************************************************************)
NoTree == [exists |-> FALSE, dirs |-> {}, files |-> {}]

Entry(d, f, c) == [dir |-> d, stem |-> f.stem, suffix |-> f.suffix, content |-> c]

\* What an earlier run under other labels left behind.
StaleTree ==
    [exists |-> TRUE, dirs |-> {"Mild", "Stale"},
     files  |-> { Entry("Stale", OldFile, OldFile),
                  Entry("Mild", File("a", "x", ".png"), OldFile) }]

PriorTrees == { NoTree, StaleTree }

LabelSets == { {"Mild", "No_DR"}, {"No_DR", "Moderate"} }

\* an rmtree that removes nothing
rmtreeKeeps(tree) == tree

\* shutil.rmtree(OUTPUT_DIR)
rmtree(tree) == NoTree

\* a setup with the label folders hardcoded
setup_hardcoded(tree) ==
    LET cleared == IF tree.exists THEN rmtree(tree) ELSE tree
    IN  [exists |-> TRUE,
         dirs   |-> cleared.dirs \cup {"Mild", "No_DR"},
         files  |-> cleared.files]

\* a setup that creates the folders only when there was no tree to remove
setup_else_branch(tree) ==
    IF tree.exists THEN rmtree(tree)
    ELSE [exists |-> TRUE, dirs |-> class_labels, files |-> {}]

\* setup_output_directory
setup_output_directory(tree) ==
    LET cleared == IF tree.exists THEN rmtree(tree) ELSE tree
    IN  [exists |-> TRUE,
         dirs   |-> cleared.dirs \cup class_labels,
         files  |-> cleared.files]

SameName(e, d, f) == e.dir = d /\ e.stem = f.stem /\ e.suffix = f.suffix

\* dest_path = OUTPUT_DIR / predicted_class / img_path.name
\* shutil.copy2 writes (or overwrites) the file of that name.
copy2(tree, img_path, predicted_class) ==
    [tree EXCEPT !.files =
        { e \in @ : ~ SameName(e, predicted_class, img_path) }
        \cup { Entry(predicted_class, img_path, img_path) }]

\* a move for the copy
MoveSource(src, img_path) == [src EXCEPT !.files = @ \ {img_path}]

\* shutil.copy2 leaves the source where it is.
SourceAfterCopy(src, img_path) == src

\* copy2 raises when the destination directory is missing or on an I/O error.
CopyRaises(tree, img_path, predicted_class) ==
    \/ predicted_class \notin tree.dirs
    \/ img_path \in copyFaults

Tally(res, predicted_class) ==
    [res EXCEPT ![predicted_class] = @ + 1]

RECURSIVE SumOver(_, _)
SumOver(f, S) ==
    IF S = {} THEN 0
    ELSE LET x == CHOOSE y \in S : TRUE IN f[x] + SumOver(f, S \ {x})

Total(f) == SumOver(f, DOMAIN f)

(***************************************************************************)
(* classify_images                                                         *)
(***************************************************************************)
NoTallies == [l \in {} |-> 0]
NoCalls   == [f \in AllImages |-> 0]

\* the output directory set up before the source directory is looked at
CheckSourceAfterSetup ==
    /\ pc = "start"
    /\ output' = setup_output_directory(output)
    /\ pc' = IF source.exists THEN "find" ELSE "early"
    /\ UNCHANGED << batchEnv, run, image_files, idx, results, processed,
                    calls, successes, setups, output0, lastRun, checkVars >>

\* lines 81-85: the source directory check
CheckSource ==
    /\ pc = "start"
    /\ pc' = IF source.exists THEN "find" ELSE "early"
    /\ UNCHANGED << batchEnv, output, run, image_files, idx, results, processed,
                    calls, successes, setups, output0, lastRun, checkVars >>

\* lines 87-94: image discovery
FindImages ==
    /\ pc = "find"
    /\ image_files' = find_image_files(source)
    /\ pc' = IF image_files' = << >> THEN "early" ELSE "setup"
    /\ UNCHANGED << batchEnv, output, run, idx, results, processed,
                    calls, successes, setups, output0, lastRun, checkVars >>

\* lines 96-101: setup_output_directory() and the zeroed tallies
SetupOutput ==
    /\ pc = "setup"
    /\ output' = setup_output_directory(output)
    /\ results' = [class_name \in class_labels |-> 0]
    /\ processed' = 0
    /\ idx' = 0
    /\ setups' = setups + 1
    /\ pc' = "loop"
    /\ UNCHANGED << batchEnv, run, image_files, calls, successes, output0,
                    lastRun, checkVars >>

\* a skip that leaves the loop (break for continue)
SkipImageBreak ==
    /\ idx' = Len(image_files)
    /\ pc' = "loop"
    /\ UNCHANGED << source, output, results, processed >>

\* lines 117-118: the image is logged as failed and the loop goes on
SkipImage ==
    /\ idx' = idx + 1
    /\ pc' = "loop"
    /\ UNCHANGED << source, output, results, processed >>

\* lines 103-118: one iteration of the loop over image_files
ProcessImage ==
    /\ pc = "loop"
    /\ idx < Len(image_files)
    /\ LET img_path        == image_files[idx + 1]
           predicted_class == predict_image_using_django_service(img_path)[1]
       IN  /\ calls' = [calls EXCEPT ![img_path] = @ + 1]
           /\ successes' = successes + (IF ReturnedSuccess(img_path) THEN 1 ELSE 0)
           /\ IF Truthy(predicted_class)
              THEN IF CopyRaises(output, img_path, predicted_class[1])
                   THEN \* the exception of shutil.copy2 leaves classify_images
                        /\ pc' = "crashed"
                        /\ UNCHANGED << source, output, results, processed, idx >>
                   ELSE /\ output' = copy2(output, img_path, predicted_class[1])
                        /\ source' = SourceAfterCopy(source, img_path)
                        /\ IF predicted_class[1] \in DOMAIN results
                           THEN /\ results' = Tally(results, predicted_class[1])
                                /\ processed' = processed + 1
                                /\ idx' = idx + 1
                                /\ pc' = "loop"
                           ELSE \* KeyError of results[predicted_class]
                                /\ pc' = "crashed"
                                /\ UNCHANGED << results, processed, idx >>
              ELSE SkipImage
    /\ UNCHANGED << walkOrder, class_labels, service, copyFaults, run, image_files,
                    setups, output0, lastRun, checkVars >>

\* lines 120-128: the summary
Summary ==
    /\ pc = "loop"
    /\ idx = Len(image_files)
    /\ pc' = "done"
    /\ UNCHANGED << batchEnv, output, run, image_files, idx, results, processed,
                    calls, successes, setups, output0, lastRun, checkVars >>

Ended == pc \in {"early", "done", "crashed"}

\* lines 130-131: the script is invoked again; a new process starts with
\* the file system the previous one left.
Rerun ==
    /\ Ended
    /\ run < MaxRuns
    /\ run' = run + 1
    /\ lastRun' = [pc |-> pc, output |-> output, results |-> results]
    /\ output0' = output
    /\ pc' = "start"
    /\ image_files' = << >>
    /\ idx' = 0
    /\ results' = NoTallies
    /\ processed' = 0
    /\ calls' = NoCalls
    /\ successes' = 0
    /\ setups' = 0
    /\ UNCHANGED << batchEnv, output, checkVars >>

(***************************************************************************)
(* test_prediction_consistency                                             *)
(***************************************************************************)
test_cases ==
    << [path |-> "classified_images/Mild/0773a1c326ad.png",     expected |-> "Mild"],
       [path |-> "classified_images/No_DR/0151781fe50b.png",    expected |-> "No_DR"],
       [path |-> "classified_images/Moderate/000c1434d8d7.png", expected |-> "Moderate"] >>

Cases == 1..Len(test_cases)

CheckerLabels == {"Mild", "No_DR", "Moderate"}

\* preprocess_image: the array, or None when PIL raises
preprocess_image(i) == IF cDecodable[i] THEN Some("img_array") ELSE None

\* a missing file reported as a mismatch
OutcomeMissingIsMismatch(i) ==
    IF ~ cExists[i] THEN "mismatch"
    ELSE IF preprocess_image(i) = None THEN "preprocess_failed"
    ELSE LET r == cService[i] IN
         IF r.raises THEN "error"
         ELSE IF ~ Get(r.ret, "success", FALSE) THEN "prediction_failed"
         ELSE IF r.ret.prediction = test_cases[i].expected THEN "match"
         ELSE "mismatch"

\* lines 60-97: the line printed for test case i
Outcome(i) ==
    IF ~ cExists[i] THEN "not_found"
    ELSE IF preprocess_image(i) = None THEN "preprocess_failed"
    ELSE LET r == cService[i] IN
         IF r.raises THEN "error"
         ELSE IF ~ Get(r.ret, "success", FALSE) THEN "prediction_failed"
         ELSE IF "prediction" \notin DOMAIN r.ret THEN "error"
         ELSE IF "confidence" \notin DOMAIN r.ret THEN "error"
         ELSE IF r.ret.confidence.kind # "number" THEN "error"
         ELSE IF r.ret.prediction = test_cases[i].expected THEN "match"
         ELSE "mismatch"

\* process_image is called once preprocessing went through
CallsService(i) == cExists[i] /\ preprocess_image(i) # None

\* one iteration of the loop over test_cases
TestCase ==
    /\ cpc = "loop"
    /\ cIdx < Len(test_cases)
    /\ LET i == cIdx + 1 IN
       /\ report' = Append(report, << i, Outcome(i) >>)
       /\ cCalls' = [cCalls EXCEPT ![i] = @ + (IF CallsService(i) THEN 1 ELSE 0)]
    /\ cIdx' = cIdx + 1
    /\ UNCHANGED << cExists, cDecodable, cService, cpc, batchEnv, batchVars >>

\* lines 99-100: "Test complete!"
TestComplete ==
    /\ cpc = "loop"
    /\ cIdx = Len(test_cases)
    /\ cpc' = "done"
    /\ UNCHANGED << cExists, cDecodable, cService, cIdx, report, cCalls,
                    batchEnv, batchVars >>

(***************************************************************************)
(* Initial states and specifications                                       *)
(***************************************************************************)
Sources ==
    { [exists |-> FALSE, files |-> {}] } \cup
    { [exists |-> TRUE, files |-> S] :
        S \in { T \in SUBSET AllFiles : Cardinality(T) <= MaxFiles } }

\* process_image on a file that is not there raises (open fails).
Services(src, Results) ==
    { s \in [AllImages -> Results \cup {Raises}] :
        \A f \in AllImages \ src.files : s[f] = Raises }

BatchIdle ==
    /\ source = [exists |-> FALSE, files |-> {}]
    /\ walkOrder = << >>
    /\ class_labels = {}
    /\ service = [f \in AllImages |-> Raises]
    /\ copyFaults = {}
    /\ output = NoTree
    /\ pc = "idle"
    /\ run = 1
    /\ image_files = << >>
    /\ idx = 0
    /\ results = NoTallies
    /\ processed = 0
    /\ calls = NoCalls
    /\ successes = 0
    /\ setups = 0
    /\ output0 = NoTree
    /\ lastRun = [pc |-> "none", output |-> NoTree, results |-> NoTallies]

CheckerIdle ==
    /\ cExists = [i \in Cases |-> FALSE]
    /\ cDecodable = [i \in Cases |-> FALSE]
    /\ cService = [i \in Cases |-> Raises]
    /\ cpc = "idle"
    /\ cIdx = 0
    /\ report = << >>
    /\ cCalls = [i \in Cases |-> 0]

BatchStart ==
    /\ source \in Sources
    /\ walkOrder \in Orders
    /\ class_labels \in LabelSets
    /\ output \in PriorTrees
    /\ output0 = output
    /\ pc = "start"
    /\ run = 1
    /\ image_files = << >>
    /\ idx = 0
    /\ results = NoTallies
    /\ processed = 0
    /\ calls = NoCalls
    /\ successes = 0
    /\ setups = 0
    /\ lastRun = [pc |-> "none", output |-> NoTree, results |-> NoTallies]
    /\ CheckerIdle

\* The service keeps to its interface and the file system to its own.
Init ==
    /\ BatchStart
    /\ service \in Services(source, ContractResults(class_labels))
    /\ copyFaults = {}

\* Any result record, and copies that may fail.
InitAny ==
    /\ BatchStart
    /\ service \in Services(source, AnyResults(class_labels))
    /\ copyFaults \in { {}, { File("a", "y", ".JPG") } }

InitChecker ==
    /\ BatchIdle
    /\ cExists \in [Cases -> BOOLEAN]
    /\ cDecodable \in { d \in [Cases -> BOOLEAN] : \A i \in Cases : d[i] => cExists[i] }
    /\ cService \in { s \in [Cases -> ContractResults(CheckerLabels)] :
                        \A i \in Cases : ~ cExists[i] => s[i] = Raises }
    /\ cpc = "loop"
    /\ cIdx = 0
    /\ report = << >>
    /\ cCalls = [i \in Cases |-> 0]

Next == CheckSource \/ FindImages \/ SetupOutput \/ ProcessImage \/ Summary \/ Rerun

NextChecker == TestCase \/ TestComplete

Spec        == Init /\ [][Next]_vars
SpecAny     == InitAny /\ [][Next]_vars
SpecChecker == InitChecker /\ [][NextChecker]_vars

(***************************************************************************)
(* Properties                                                              *)
(***************************************************************************)
InLoop     == pc = "loop" /\ idx < Len(image_files)
Current    == image_files[idx + 1]
NoCallYet  == \A f \in AllImages : calls[f] = 0
FilesIn(tree, d) == { e \in tree.files : e.dir = d }
Handled    == { image_files[k] : k \in 1..idx }

\* C1: a step that classifies an image leaves the image in the source tree,
\* writes exactly one file, the image under its own name in the folder of
\* the predicted label, and raises that label's tally by one and no other.
C1_CopyAndTally ==
    [][ (InLoop /\ ReturnedSuccess(Current)) =>
          LET img == Current
              l   == service[img].ret.prediction
          IN  /\ source' = source
              /\ img \in source'.files
              /\ Entry(l, img, img) \in output'.files
              /\ \A e \in output'.files :
                    e # Entry(l, img, img) => e \in output.files
              /\ \A d \in output.dirs \ {l} : FilesIn(output', d) = FilesIn(output, d)
              /\ output'.dirs = output.dirs
              /\ DOMAIN results' = DOMAIN results
              /\ results'[l] = results[l] + 1
              /\ \A k \in DOMAIN results \ {l} : results'[k] = results[k]
      ]_vars

C1_Witness ==
    /\ pc = "loop"
    /\ processed = 2
    /\ \E f \in Handled : \E l \in class_labels :
          /\ Entry(l, f, f) \in output.files
          /\ f \in source.files
          /\ results[l] = 1

\* C2: when the summary is reached, the tallies add up to the number of
\* results with success = true the service returned.
C2_TalliesSumToSuccesses ==
    pc = "done" => Total(results) = successes

\* C3: with no source directory, or none of its files an image, the run
\* never touches the output tree and never calls the service.
NoInput == ~ source.exists \/ \A f \in source.files : ~ IsImage(f)

C3_EarlyExitLeavesOutput ==
    NoInput =>
        /\ output = output0
        /\ NoCallYet
        /\ setups = 0
        /\ pc \in {"start", "find", "early"}

C3_Witness ==
    /\ pc = "early"
    /\ source.exists
    /\ source.files # {}
    /\ output = StaleTree

\* C4: a second run on the same source tree with the same service ends
\* with the output tree and the tallies of the first.
C4_Idempotent ==
    (run >= 2 /\ Ended) =>
        /\ output = lastRun.output
        /\ pc = lastRun.pc
        /\ (pc = "done" => results = lastRun.results)

C4_Witness ==
    /\ run = 2
    /\ pc = "done"
    /\ processed = 2
    /\ Cardinality(output.files) = 2

\* C5: every copy goes into a folder that exists, and from the end of the
\* setup to the end of the run the folders are the labels of the service.
C5_FoldersAreLabels ==
    [][ /\ (InLoop /\ Truthy(predict_image_using_django_service(Current)[1]))
             => predict_image_using_django_service(Current)[1][1] \in output.dirs
        /\ (pc' \in {"loop", "done", "crashed"})
             => (output'.exists /\ output'.dirs = class_labels)
      ]_vars

C5_Witness ==
    /\ pc = "loop"
    /\ processed >= 1
    /\ output0 = StaleTree
    /\ "Mild" \notin class_labels
    /\ \E e \in output.files : e.dir = "Moderate"

\* C6: a failed prediction writes no file and changes no tally nor the
\* processed count, the loop goes on with the next image, and every image
\* of the list is submitted exactly once.
SubmittedOnce ==
    \A k \in 1..Len(image_files) :
        calls[image_files[k]] = IF k <= idx THEN 1 ELSE 0

C6_FailureIsSkipped ==
    [][ /\ (InLoop /\ ~ ReturnedSuccess(Current)) =>
              /\ output' = output
              /\ results' = results
              /\ processed' = processed
              /\ idx' = idx + 1
              /\ pc' = "loop"
        /\ (pc' \in {"loop", "done"}) => SubmittedOnce'
        /\ (pc' = "done") => idx' = Len(image_files')
      ]_vars

C6_Witness ==
    /\ pc = "done"
    /\ Len(image_files) = 3
    /\ ~ ReturnedSuccess(image_files[1])
    /\ processed = 2

\* C7: the batch classifier never ends in an exception.
C7_NeverCrashes ==
    pc # "crashed"

\* C8: the report holds one line per test case gone through, in list order;
\* a missing file is "not found" and causes no call; a failed preprocessing
\* or prediction is a failure; else the line is a match exactly when the
\* returned label is the expected one.
Kind(outcome) ==
    IF outcome \in {"preprocess_failed", "prediction_failed", "error"}
    THEN "failure" ELSE outcome

Expected(i) ==
    IF ~ cExists[i] THEN "not_found"
    ELSE IF ~ cDecodable[i] THEN "failure"
    ELSE IF cService[i].raises \/ ~ cService[i].ret.success THEN "failure"
    ELSE IF cService[i].ret.prediction = test_cases[i].expected THEN "match"
    ELSE "mismatch"

C8_OneOutcomePerCase ==
    /\ Len(report) = cIdx
    /\ \A k \in 1..Len(report) :
          /\ report[k][1] = k
          /\ Kind(report[k][2]) = Expected(k)
    /\ \A i \in Cases : ~ cExists[i] => cCalls[i] = 0
    /\ \A i \in Cases : cCalls[i] <= 1
    /\ cpc = "done" => Len(report) = Len(test_cases)

C8_Witness ==
    /\ cpc = "done"
    /\ report[1][2] = "not_found"
    /\ report[2][2] = "error"
    /\ report[3][2] = "match"

\* C9: the output tree is removed and made anew, one empty folder per
\* label, once per run, after the images are found and before the first
\* call; after that no file disappears, and every file in the tree is an
\* image this run has copied.
C9_FreshOutputOncePerRun ==
    [][ /\ (setups' # setups /\ pc' # "start") =>
              /\ pc = "setup" /\ setups = 0
              /\ image_files # << >>
              /\ NoCallYet
              /\ output'.files = {}
              /\ output'.dirs = class_labels
        /\ (pc' \in {"loop", "done"}) =>
              /\ setups' = 1
              /\ \A e \in output'.files : e.content \in Handled'
        /\ InLoop =>
              \A e \in output.files : \E e2 \in output'.files :
                  e2.dir = e.dir /\ e2.stem = e.stem /\ e2.suffix = e.suffix
      ]_vars

C9_Witness ==
    /\ pc = "done"
    /\ run = 1
    /\ output0 = StaleTree
    /\ processed >= 1

\* C10: after a completed run each label's folder holds as many files as
\* the label's tally.
C10_FolderSizeIsTally ==
    pc = "done" =>
        \A l \in class_labels : Cardinality(FilesIn(output, l)) = results[l]

====
